---------------------------- MODULE Spec2Model ----------------------------
(***************************************************************************)
(* Connection-and-query management layer of native/src/db.rs: one          *)
(* process-wide Mutex<Option<Connection>> (DB_CONNECTION) shared by        *)
(* concurrent callers of init_database, import_parquet, execute_query,     *)
(* get_database_info and create_index.                                     *)
(*                                                                         *)
(* Strings that the code computes (table names, index names, cell texts)   *)
(* are sequences of one-character strings; fixed messages are TLA+ strings. *)
(* The embedded engine is modelled by what the code observes of it: a      *)
(* catalog of tables and indexes per connection, and calls that succeed or *)
(* fail.                                                                   *)
(***************************************************************************)
EXTENDS Integers, Sequences, FiniteSets, TLC

(* ------------------------------ bounds --------------------------------- *)

\* concurrent callers (threads)
NumThreads == 2

\* calls invoked in one behaviour
MaxCalls == 4

\* clock ticks that the execute_query calls in progress have seen, summed
MaxTime == 1

Threads == 1..NumThreads

(* --------------------------- fixed messages ---------------------------- *)

LockErr == "Failed to lock database connection"

NotInitErr == "Database not initialized"

InvalidPathErr == "Invalid file path"

\* the engine's own error, propagated with `?`
EngineErr == "engine error"

InitOk == "DuckDB initialized successfully"

(* ------------------------- character sequences ------------------------- *)

Digits == <<"0", "1", "2", "3", "4", "5", "6", "7", "8", "9">>

DigitSet == {Digits[i] : i \in 1..10}

\* char::is_alphanumeric for the characters that occur in the model
AlphaNumeric == DigitSet \cup {"a", "b", "c", "d", "i", "p", "q", "r", "t", "u", "e", "x", "v", "z", "s", "l", "o"}

\* decimal text of a natural number
RECURSIVE NatToString(_)
NatToString(n) ==
    IF n < 10 THEN <<Digits[n + 1]>>
    ELSE NatToString(n \div 10) \o <<Digits[(n % 10) + 1]>>

\* i64::to_string
IntToString(i) ==
    IF i < 0 THEN <<"-">> \o NatToString(0 - i) ELSE NatToString(i)

\* f64::to_string for a value given in tenths (15 is 1.5, 20 is 2)
RealToString(t) ==
    LET a == IF t < 0 THEN 0 - t ELSE t
        body == NatToString(a \div 10) \o
                (IF a % 10 = 0 THEN <<>> ELSE <<".", Digits[(a % 10) + 1]>>)
    IN  IF t < 0 THEN <<"-">> \o body ELSE body

\* U+FFFD, which from_utf8_lossy puts in place of an invalid sequence
Replacement == "U+FFFD"

\* the bytes of the model: 97 'a', 98 'b', 195 169 is the two-byte
\* encoding of U+00E9, 255 is never valid
DecodeAscii(b) == IF b = 97 THEN "a" ELSE IF b = 98 THEN "b" ELSE "?"

\* String::from_utf8_lossy
RECURSIVE FromUtf8Lossy(_)
FromUtf8Lossy(bs) ==
    IF bs = <<>> THEN <<>>
    ELSE IF Head(bs) < 128 THEN <<DecodeAscii(Head(bs))>> \o FromUtf8Lossy(Tail(bs))
    ELSE IF Head(bs) = 195 /\ Len(bs) >= 2 /\ bs[2] = 169
         THEN <<"U+00E9">> \o FromUtf8Lossy(Tail(Tail(bs)))
    ELSE <<Replacement>> \o FromUtf8Lossy(Tail(bs))


Chars(s) == {s[i] : i \in 1..Len(s)}

\* the components of a path: its parts between '/' (std::path::Components
\* drops empty parts, and "." parts other than a leading one)
RECURSIVE SplitPath(_, _, _)
SplitPath(path, cur, first) ==
    LET keep(c) == c # <<>> /\ (c # <<".">> \/ first)
    IN  IF path = <<>> THEN (IF keep(cur) THEN <<cur>> ELSE <<>>)
        ELSE IF Head(path) = "/"
             THEN (IF keep(cur) THEN <<cur>> ELSE <<>>) \o SplitPath(Tail(path), <<>>, FALSE)
        ELSE SplitPath(Tail(path), Append(cur, Head(path)), first)

\* position of the last '.' of a name, 0 when it has none
RECURSIVE LastDot(_, _)
LastDot(name, i) ==
    IF i = 0 THEN 0 ELSE IF name[i] = "." THEN i ELSE LastDot(name, i - 1)

\* Path::file_stem: <<stem>>, or <<>> for None (no final normal component)
FileStem(path) ==
    LET comps == SplitPath(path, <<>>, TRUE)
        name == comps[Len(comps)]
        dot == LastDot(name, Len(name))
    IN  IF comps = <<>> \/ name = <<".">> \/ name = <<".", ".">> THEN <<>>
        ELSE IF dot <= 1 THEN <<name>>
        ELSE <<SubSeq(name, 1, dot - 1)>>

\* mutant: the special characters are removed, not replaced
SafeTableNameStrips(file_name) ==
    SelectSeq(file_name, LAMBDA c : c \in AlphaNumeric \/ c = "_")

\* file_name.replace(|c| !c.is_alphanumeric() && c != '_', "_")
SafeTableName(file_name) ==
    [i \in 1..Len(file_name) |->
        IF file_name[i] \in AlphaNumeric \/ file_name[i] = "_"
        THEN file_name[i] ELSE "_"]

\* format!("idx_{}_{}", table_name, column_name)
IndexName(table_name, column_name) ==
    <<"i", "d", "x", "_">> \o table_name \o <<"_">> \o column_name

(* ------------------------- engine values ------------------------------- *)

\* what row.get_ref(i) gives: Ok(ValueRef::...) or Err
NullCell == [tag |-> "Null", v |-> 0, b |-> <<>>]

IntCell(i) == [tag |-> "Integer", v |-> i, b |-> <<>>]

RealCell(t) == [tag |-> "Real", v |-> t, b |-> <<>>]

TextCell(bs) == [tag |-> "Text", v |-> 0, b |-> bs]

BlobCell(bs) == [tag |-> "Blob", v |-> 0, b |-> bs]

ErrCell == [tag |-> "Err", v |-> 0, b |-> <<>>]

\* mutant: text is decoded strictly, and invalid UTF-8 reported as a failed cell
CellToStringStrictUtf8(cell) ==
    CASE cell.tag = "Null" -> <<"N", "U", "L", "L">>
      [] cell.tag = "Integer" -> IntToString(cell.v)
      [] cell.tag = "Real" -> RealToString(cell.v)
      [] cell.tag = "Text" ->
            IF Replacement \in Chars(FromUtf8Lossy(cell.b))
            THEN <<"E", "R", "R", "O", "R">> ELSE FromUtf8Lossy(cell.b)
      [] cell.tag = "Blob" -> <<"B", "L", "O", "B", "(">> \o NatToString(Len(cell.b)) \o <<")">>
      [] OTHER -> <<"E", "R", "R", "O", "R">>

\* the match of execute_query's row closure
CellToString(cell) ==
    CASE cell.tag = "Null" -> <<"N", "U", "L", "L">>
      [] cell.tag = "Integer" -> IntToString(cell.v)
      [] cell.tag = "Real" -> RealToString(cell.v)
      [] cell.tag = "Text" -> FromUtf8Lossy(cell.b)
      [] cell.tag = "Blob" -> <<"B", "L", "O", "B", "(">> \o NatToString(Len(cell.b)) \o <<")">>
      [] OTHER -> <<"E", "R", "R", "O", "R">>

\* mutant: a cell that cannot be read is left out of the row
RowToStringsSkipUnreadable(row) ==
    LET kept == SelectSeq(row, LAMBDA c : c.tag # "Err")
    IN  [i \in 1..Len(kept) |-> CellToString(kept[i])]

\* the row closure: one string pushed per column of the row
RowToStrings(row) == [i \in 1..Len(row) |-> CellToString(row[i])]

(* ------------------------- engine contents ----------------------------- *)

TA1 == <<"a", "_", "1">>

ColId == <<"i", "d">>

ColV == <<"v">>

BigInt == <<"B", "I", "G", "I", "N", "T">>

Varchar == <<"V", "A", "R", "C", "H", "A", "R">>

FileCols == <<[name |-> ColId, type |-> BigInt], [name |-> ColV, type |-> Varchar]>>

\* "a-1.parquet"
PathDash == <<"a", "-", "1", ".", "p", "a", "r", "q", "u", "e", "t">>

\* "d/a_1.parquet"
PathUnder == <<"d", "/", "a", "_", "1", ".", "p", "a", "r", "q", "u", "e", "t">>

\* "sales report.parquet"
PathSales ==
    <<"s", "a", "l", "e", "s", " ", "r", "e", "p", "o", "r", "t",
      ".", "p", "a", "r", "q", "u", "e", "t">>

\* a path with no file name
PathNone == <<"d", "/", ".", ".">>

\* the Parquet files that exist, with their columns and rows
Files ==
    (PathDash :> [cols |-> FileCols,
                  rows |-> <<<<IntCell(1), TextCell(<<97>>)>>, <<IntCell(2), NullCell>>>>])
    @@ (PathUnder :> [cols |-> FileCols,
                      rows |-> <<<<IntCell(7), TextCell(<<98, 255>>)>>>>])
    @@ (PathSales :> [cols |-> <<[name |-> ColId, type |-> BigInt]>>,
                      rows |-> <<<<IntCell(3)>>, <<IntCell(4)>>, <<IntCell(5)>>>>])

ImportPaths == {PathDash, PathUnder, PathSales, PathNone}

\* the arguments of a call, as one record for every operation: the file path
\* of import_parquet, the statement of execute_query (its kind and the table
\* it names), the table and column of create_index
MakeArg(kind, path, tbl, col) == [kind |-> kind, path |-> path, tbl |-> tbl, col |-> col]

PathArg(path) == MakeArg("path", path, <<>>, <<>>)

\* the statements execute_query is called with
SelectQ(t) == MakeArg("select", <<>>, t, <<>>)

InsertQ(t) == MakeArg("insert", <<>>, t, <<>>)

LitQ == MakeArg("lit", <<>>, <<>>, <<>>)

BadQ == MakeArg("bad", <<>>, <<>>, <<>>)

Queries == {SelectQ(TA1), InsertQ(TA1), LitQ, BadQ}

\* the row an INSERT statement adds
InsertedRow == <<IntCell(-12), TextCell(<<195, 169>>)>>

\* the rows of the literal SELECT: every kind of cell, one unreadable
LitCols == <<<<"x">>, <<"y">>, <<"z">>>>

LitRows ==
    << <<IntCell(305), TextCell(<<97, 195, 98, 255>>), ErrCell>>,
       <<NullCell, BlobCell(<<255, 97, 98>>), RealCell(-15)>> >>

IndexArg(table, column) == MakeArg("index", <<>>, table, column)

IndexArgs == {IndexArg(TA1, ColId), IndexArg(TA1, <<"z">>)}

\* a table of the catalog by name: <<table>> or <<>>
FindTable(cat, name) ==
    LET hits == {i \in 1..Len(cat) : cat[i].name = name}
    IN  IF hits = {} THEN <<>> ELSE <<cat[CHOOSE i \in hits : TRUE]>>

HasTable(cat, name) == FindTable(cat, name) # <<>>

\* an unquoted SQL identifier
ValidIdent(name) == name # <<>> /\ name[1] \notin DigitSet

ReplaceTable(cat, name, rows) ==
    [i \in 1..Len(cat) |->
        IF cat[i].name = name THEN [cat[i] EXCEPT !.rows = rows] ELSE cat[i]]

\* the statement's projected columns, <<>> when prepare fails
QueryPrepares(q, cat) ==
    CASE q.kind = "select" -> HasTable(cat, q.tbl)
      [] q.kind = "insert" -> HasTable(cat, q.tbl)
      [] q.kind = "lit" -> TRUE
      [] OTHER -> FALSE

QueryColumns(q, cat) ==
    CASE q.kind = "select" ->
            LET t == FindTable(cat, q.tbl)[1]
            IN  [i \in 1..Len(t.cols) |-> t.cols[i].name]
      [] q.kind = "insert" -> <<<<"C", "o", "u", "n", "t">>>>
      [] OTHER -> LitCols

\* the statement's result rows, in the engine's output order
QueryRows(q, cat) ==
    CASE q.kind = "select" -> FindTable(cat, q.tbl)[1].rows
      [] q.kind = "insert" -> <<<<IntCell(1)>>>>
      [] OTHER -> LitRows

\* the catalog after the statement has run
QueryEffect(q, cat) ==
    IF q.kind = "insert"
    THEN ReplaceTable(cat, q.tbl, Append(FindTable(cat, q.tbl)[1].rows, InsertedRow))
    ELSE cat

(* ------------------------------ state ---------------------------------- *)

VARIABLES
    pc,        \* where each caller is in its call
    op,        \* the operation each caller invoked
    arg,       \* its argument
    holders,   \* the callers holding a MutexGuard of DB_CONNECTION
    poisoned,  \* the Mutex's poison flag
    handle,    \* the Option<Connection> inside the Mutex: 0 is None
    opened,    \* connections opened so far; they are numbered 1..opened
    closed,    \* connections dropped
    tables,    \* catalog of the stored connection's database, in catalog order
    indexes,   \* its indexes
    loc,       \* each caller's local variables; loc[t].out is the value returned
    issued,    \* statements each caller's current call has issued to the engine
    atLock,    \* handle and catalog when the caller acquired the lock, and the
               \* time it has spent waiting for the lock and holding it
    calls      \* calls invoked so far

vars == <<pc, op, arg, holders, poisoned, handle, opened, closed, tables, indexes,
          loc, issued, atLock, calls>>

Ops == {"init_database", "import_parquet", "execute_query", "get_database_info", "create_index"}

NoArg == MakeArg("none", <<>>, <<>>, <<>>)

Args(o) ==
    CASE o = "import_parquet" -> {PathArg(p) : p \in ImportPaths}
      [] o = "execute_query" -> Queries
      [] o = "create_index" -> IndexArgs
      [] OTHER -> {NoArg}

EmptyInfo == [table_count |-> 0, row_count |-> <<>>, table_schemas |-> <<>>, indices |-> <<>>]

NoRet == [kind |-> "None", msg |-> "", val |-> <<>>]

Ok(v) == [kind |-> "Ok", msg |-> "", val |-> v]

Err(m) == [kind |-> "Err", msg |-> m, val |-> <<>>]

NoLocals ==
    [conn |-> 0, table_name |-> <<>>, column_names |-> <<>>, rs |-> <<>>, i |-> 0,
     rows |-> <<>>, row_count |-> 0, start |-> -1, info |-> EmptyInfo, out |-> NoRet]

NoSnap == [handle |-> 0, tables |-> <<>>, waited |-> 0, held |-> 0]

Init ==
    /\ pc = [t \in Threads |-> "idle"]
    /\ op = [t \in Threads |-> "init_database"]
    /\ arg = [t \in Threads |-> NoArg]
    /\ holders = {}
    /\ poisoned = FALSE
    /\ handle = 0
    /\ opened = 0
    /\ closed = {}
    /\ tables = <<>>
    /\ indexes = <<>>
    /\ loc = [t \in Threads |-> NoLocals]
    /\ issued = [t \in Threads |-> 0]
    /\ atLock = [t \in Threads |-> NoSnap]
    /\ calls = 0

(* ------------------------------ the lock ------------------------------- *)

\* mutant: lock() does not wait for the guard to be released
CanLockAlways(t) == TRUE

\* Mutex::lock blocks until no guard is alive
CanLock(t) == holders = {}

\* the first statement of each operation after the lock is taken
FirstPc(o) == IF o = "init_database" THEN "open" ELSE "chk"

\* a caller invokes an operation through the boundary
Call(t) ==
    /\ pc[t] = "idle"
    /\ calls < MaxCalls
    /\ \E o \in Ops : \E a \in Args(o) :
        /\ op' = [op EXCEPT ![t] = o]
        /\ arg' = [arg EXCEPT ![t] = a]
    /\ pc' = [pc EXCEPT ![t] = "lock"]
    /\ calls' = calls + 1
    /\ UNCHANGED <<holders, poisoned, handle, opened, closed, tables, indexes, loc,
                   issued, atLock>>

\* a `?` on an error: the function returns it
Fail(t, m) ==
    /\ loc' = [loc EXCEPT ![t].out = Err(m)]
    /\ pc' = [pc EXCEPT ![t] = "exit"]

\* mutant: the guard is bound to `_` and dropped at once; the body runs unlocked
AcquireDropsGuard(t) ==
    /\ pc[t] = "lock"
    /\ CanLock(t)
    /\ IF poisoned
       THEN /\ Fail(t, LockErr)
            /\ UNCHANGED atLock
       ELSE /\ pc' = [pc EXCEPT ![t] = FirstPc(op[t])]
            /\ atLock' = [atLock EXCEPT ![t].handle = handle, ![t].tables = tables]
            /\ UNCHANGED loc
    /\ UNCHANGED <<op, arg, holders, poisoned, handle, opened, closed, tables, indexes,
                   issued, calls>>

\* mutant: a poisoned Mutex is entered like a healthy one
\* (unwrap_or_else(|e| e.into_inner()))
AcquireIgnoresPoison(t) ==
    /\ pc[t] = "lock"
    /\ CanLock(t)
    /\ holders' = holders \cup {t}
    /\ pc' = [pc EXCEPT ![t] = FirstPc(op[t])]
    /\ atLock' = [atLock EXCEPT ![t].handle = handle, ![t].tables = tables]
    /\ UNCHANGED <<op, arg, poisoned, handle, opened, closed, tables, indexes, loc,
                   issued, calls>>

\* DB_CONNECTION.lock().map_err(|_| anyhow!(...))?  A poisoned Mutex gives
\* Err(PoisonError(guard)) once the lock is free; map_err drops the guard with
\* the PoisonError, and `?` returns the error.
Acquire(t) ==
    /\ pc[t] = "lock"
    /\ CanLock(t)
    /\ IF poisoned
       THEN /\ Fail(t, LockErr)
            /\ UNCHANGED <<holders, atLock>>
       ELSE /\ holders' = holders \cup {t}
            /\ pc' = [pc EXCEPT ![t] = FirstPc(op[t])]
            /\ atLock' = [atLock EXCEPT ![t].handle = handle, ![t].tables = tables]
            /\ UNCHANGED loc
    /\ UNCHANGED <<op, arg, poisoned, handle, opened, closed, tables, indexes,
                   issued, calls>>

\* mutant: an error return leaks the guard (the error borrows from it)
ExitKeepsGuardOnError(t) ==
    /\ pc[t] = "exit"
    /\ holders' = IF loc[t].out.kind = "Err" THEN holders ELSE holders \ {t}
    /\ pc' = [pc EXCEPT ![t] = "idle"]
    /\ op' = [op EXCEPT ![t] = "init_database"]
    /\ arg' = [arg EXCEPT ![t] = NoArg]
    /\ loc' = [loc EXCEPT ![t] = NoLocals]
    /\ issued' = [issued EXCEPT ![t] = 0]
    /\ atLock' = [atLock EXCEPT ![t] = NoSnap]
    /\ UNCHANGED <<poisoned, handle, opened, closed, tables, indexes, calls>>

\* the function returns loc[t].out: its locals are dropped, the guard among
\* them, and the caller is ready for its next call
Exit(t) ==
    /\ pc[t] = "exit"
    /\ holders' = holders \ {t}
    /\ pc' = [pc EXCEPT ![t] = "idle"]
    /\ op' = [op EXCEPT ![t] = "init_database"]
    /\ arg' = [arg EXCEPT ![t] = NoArg]
    /\ loc' = [loc EXCEPT ![t] = NoLocals]
    /\ issued' = [issued EXCEPT ![t] = 0]
    /\ atLock' = [atLock EXCEPT ![t] = NoSnap]
    /\ UNCHANGED <<poisoned, handle, opened, closed, tables, indexes, calls>>

\* the positions at which the holder is inside a call into the engine library
EnginePcs == {"open", "store", "create", "count", "prepare", "query", "fetch",
              "tables", "next", "cnt", "schema", "idx", "cindex"}

\* the holder panics inside the critical section: unwinding drops its locals,
\* the guard among them, which poisons the Mutex; the call does not return
Panic(t) ==
    /\ pc[t] \in EnginePcs
    /\ t \in holders
    /\ holders' = holders \ {t}
    /\ poisoned' = TRUE
    /\ closed' = IF pc[t] = "store" THEN closed \cup {loc[t].conn} ELSE closed
    /\ pc' = [pc EXCEPT ![t] = "idle"]
    /\ op' = [op EXCEPT ![t] = "init_database"]
    /\ arg' = [arg EXCEPT ![t] = NoArg]
    /\ loc' = [loc EXCEPT ![t] = NoLocals]
    /\ issued' = [issued EXCEPT ![t] = 0]
    /\ atLock' = [atLock EXCEPT ![t] = NoSnap]
    /\ UNCHANGED <<handle, opened, tables, indexes, calls>>

Step(t, next) == pc' = [pc EXCEPT ![t] = next]

Issue(t) == issued' = [issued EXCEPT ![t] = @ + 1]

(* --------------------------- init_database ----------------------------- *)

\* mutant: the stored handle is taken out before the new connection is opened
InitOpenClearsFirst(t) ==
    /\ pc[t] = "open"
    /\ handle' = 0
    /\ closed' = closed \cup ({handle} \ {0})
    /\ \E ok \in BOOLEAN :
        IF ok
        THEN /\ opened' = opened + 1
             /\ loc' = [loc EXCEPT ![t].conn = opened + 1]
             /\ Step(t, "store")
        ELSE /\ Fail(t, EngineErr)
             /\ UNCHANGED opened
    /\ UNCHANGED <<op, arg, holders, poisoned, tables, indexes, issued, atLock, calls>>

\* Connection::open_in_memory()?
InitOpen(t) ==
    /\ pc[t] = "open"
    /\ \E ok \in BOOLEAN :
        IF ok
        THEN /\ opened' = opened + 1
             /\ loc' = [loc EXCEPT ![t].conn = opened + 1]
             /\ Step(t, "store")
        ELSE /\ Fail(t, EngineErr)
             /\ UNCHANGED opened
    /\ UNCHANGED <<op, arg, holders, poisoned, handle, closed, tables, indexes,
                   issued, atLock, calls>>

\* mutant: a handle already stored is kept (get_or_insert) and the new
\* connection dropped
InitStoreKeepsFirst(t) ==
    /\ pc[t] = "store"
    /\ handle' = IF handle = 0 THEN loc[t].conn ELSE handle
    /\ closed' = IF handle = 0 THEN closed ELSE closed \cup {loc[t].conn}
    /\ tables' = IF handle = 0 THEN <<>> ELSE tables
    /\ indexes' = IF handle = 0 THEN <<>> ELSE indexes
    /\ loc' = [loc EXCEPT ![t].out = Ok(InitOk)]
    /\ Step(t, "exit")
    /\ UNCHANGED <<op, arg, holders, poisoned, opened, issued, atLock, calls>>

\* *conn_guard = Some(conn): the old value is dropped, the new one is stored.
\* The new connection's in-memory database is empty.
InitStore(t) ==
    /\ pc[t] = "store"
    /\ handle' = loc[t].conn
    /\ closed' = closed \cup ({handle} \ {0})
    /\ tables' = <<>>
    /\ indexes' = <<>>
    /\ loc' = [loc EXCEPT ![t].out = Ok(InitOk)]
    /\ Step(t, "exit")
    /\ UNCHANGED <<op, arg, holders, poisoned, opened, issued, atLock, calls>>

(* ------------------- conn_guard.as_ref().ok_or_else -------------------- *)

\* where each operation goes once it has the connection
BodyPc(o) ==
    CASE o = "import_parquet" -> "create"
      [] o = "execute_query" -> "start"
      [] o = "get_database_info" -> "tables"
      [] OTHER -> "cindex"

\* mutant: the handle is used without the ok_or_else test
CheckHandleUnchecked(t) ==
    /\ pc[t] = "chk"
    /\ Step(t, BodyPc(op[t]))
    /\ UNCHANGED <<op, arg, holders, poisoned, handle, opened, closed, tables, indexes,
                   loc, issued, atLock, calls>>

\* Path::file_stem of each path import_parquet is called with
StemOf == [p \in ImportPaths |-> FileStem(p)]

\* whether Path::file_stem gives a name
HasStem(path) == StemOf[path] # <<>>

\* the table name import_parquet derives from its file path
DerivedTableName(path) == SafeTableName(StemOf[path][1])

\* mutant: the connection is moved out of the Mutex (conn_guard.take()) and
\* dropped with the function's locals
CheckHandleTakes(t) ==
    /\ pc[t] = "chk"
    /\ IF handle = 0
       THEN /\ Fail(t, NotInitErr)
            /\ UNCHANGED <<handle, closed>>
       ELSE /\ handle' = 0
            /\ closed' = closed \cup {handle}
            /\ IF op[t] = "import_parquet" /\ ~HasStem(arg[t].path)
               THEN Fail(t, InvalidPathErr)
               ELSE /\ loc' = [loc EXCEPT ![t].table_name =
                            IF op[t] = "import_parquet" THEN DerivedTableName(arg[t].path)
                            ELSE <<>>]
                    /\ Step(t, BodyPc(op[t]))
    /\ UNCHANGED <<op, arg, holders, poisoned, opened, tables, indexes,
                   issued, atLock, calls>>

\* the handle is read; import_parquet then derives its table name
CheckHandle(t) ==
    /\ pc[t] = "chk"
    /\ IF handle = 0
       THEN Fail(t, NotInitErr)
       ELSE IF op[t] = "import_parquet" /\ ~HasStem(arg[t].path)
            THEN Fail(t, InvalidPathErr)
            ELSE /\ loc' = [loc EXCEPT ![t].table_name =
                        IF op[t] = "import_parquet" THEN DerivedTableName(arg[t].path) ELSE <<>>]
                 /\ Step(t, BodyPc(op[t]))
    /\ UNCHANGED <<op, arg, holders, poisoned, handle, opened, closed, tables, indexes,
                   issued, atLock, calls>>

(* --------------------------- import_parquet ---------------------------- *)

\* CREATE TABLE <name> AS SELECT * FROM read_parquet('<path>')
CreateTableOk(cat, name, path) ==
    /\ ValidIdent(name)
    /\ ~HasTable(cat, name)
    /\ path \in DOMAIN Files

\* mutant: the guard is dropped after the CREATE statement, and the count is
\* taken through the connection without it
ImportCreateDropsGuard(t) ==
    /\ pc[t] = "create"
    /\ Issue(t)
    /\ \E fault \in BOOLEAN :
        IF ~fault /\ CreateTableOk(tables, loc[t].table_name, arg[t].path)
        THEN /\ tables' = Append(tables, [name |-> loc[t].table_name,
                                          cols |-> Files[arg[t].path].cols,
                                          rows |-> Files[arg[t].path].rows])
             /\ holders' = holders \ {t}
             /\ Step(t, "count")
             /\ UNCHANGED loc
        ELSE /\ Fail(t, EngineErr)
             /\ UNCHANGED <<tables, holders>>
    /\ UNCHANGED <<op, arg, poisoned, handle, opened, closed, indexes, atLock, calls>>

\* mutant: the result of the CREATE statement is discarded (let _ = ...) and
\* the function goes on to count
ImportCreateIgnoresError(t) ==
    /\ pc[t] = "create"
    /\ Issue(t)
    /\ \E fault \in BOOLEAN :
        IF ~fault /\ CreateTableOk(tables, loc[t].table_name, arg[t].path)
        THEN tables' = Append(tables, [name |-> loc[t].table_name,
                                       cols |-> Files[arg[t].path].cols,
                                       rows |-> Files[arg[t].path].rows])
        ELSE UNCHANGED tables
    /\ Step(t, "count")
    /\ UNCHANGED <<op, arg, holders, poisoned, handle, opened, closed, indexes,
                   loc, atLock, calls>>

\* conn.execute_batch(..)?: the table is created with the file's columns and
\* rows, or the statement fails and nothing is created
ImportCreate(t) ==
    /\ pc[t] = "create"
    /\ Issue(t)
    /\ \E fault \in BOOLEAN :
        IF ~fault /\ CreateTableOk(tables, loc[t].table_name, arg[t].path)
        THEN /\ tables' = Append(tables, [name |-> loc[t].table_name,
                                          cols |-> Files[arg[t].path].cols,
                                          rows |-> Files[arg[t].path].rows])
             /\ Step(t, "count")
             /\ UNCHANGED loc
        ELSE /\ Fail(t, EngineErr)
             /\ UNCHANGED tables
    /\ UNCHANGED <<op, arg, holders, poisoned, handle, opened, closed, indexes,
                   atLock, calls>>

\* SELECT COUNT(*) FROM <name>; the summary is returned
ImportCount(t) ==
    /\ pc[t] = "count"
    /\ Issue(t)
    /\ \E fault \in BOOLEAN :
        IF ~fault /\ HasTable(tables, loc[t].table_name)
        THEN /\ loc' = [loc EXCEPT ![t].out =
                    Ok([rows |-> Len(FindTable(tables, loc[t].table_name)[1].rows),
                        table |-> loc[t].table_name])]
             /\ Step(t, "exit")
        ELSE Fail(t, EngineErr)
    /\ UNCHANGED <<op, arg, holders, poisoned, handle, opened, closed, tables, indexes,
                   atLock, calls>>

(* ---------------------------- execute_query ---------------------------- *)

\* mutant: the Instant is the one of the function's entry, taken before lock()
ExecStartAtEntry(t) ==
    /\ pc[t] = "start"
    /\ loc' = [loc EXCEPT ![t].start = atLock[t].waited + atLock[t].held]
    /\ Step(t, "prepare")
    /\ UNCHANGED <<op, arg, holders, poisoned, handle, opened, closed, tables, indexes,
                   issued, atLock, calls>>

\* let start = Instant::now(): loc[t].start is the age of that Instant, the
\* time that has passed since it was taken
ExecStart(t) ==
    /\ pc[t] = "start"
    /\ loc' = [loc EXCEPT ![t].start = 0]
    /\ Step(t, "prepare")
    /\ UNCHANGED <<op, arg, holders, poisoned, handle, opened, closed, tables, indexes,
                   issued, atLock, calls>>

\* conn.prepare(&query)?, then stmt.column_names()
ExecPrepare(t) ==
    /\ pc[t] = "prepare"
    /\ Issue(t)
    /\ \E fault \in BOOLEAN :
        IF ~fault /\ QueryPrepares(arg[t], tables)
        THEN /\ loc' = [loc EXCEPT ![t].column_names = QueryColumns(arg[t], tables)]
             /\ Step(t, "query")
        ELSE Fail(t, EngineErr)
    /\ UNCHANGED <<op, arg, holders, poisoned, handle, opened, closed, tables, indexes,
                   atLock, calls>>

\* stmt.query_map(params![], ...)?: the statement runs
ExecQuery(t) ==
    /\ pc[t] = "query"
    /\ \E fault \in BOOLEAN :
        IF ~fault /\ QueryPrepares(arg[t], tables)
        THEN /\ loc' = [loc EXCEPT ![t].rs = QueryRows(arg[t], tables), ![t].i = 0]
             /\ tables' = QueryEffect(arg[t], tables)
             /\ Step(t, "fetch")
        ELSE /\ Fail(t, EngineErr)
             /\ UNCHANGED tables
    /\ UNCHANGED <<op, arg, holders, poisoned, handle, opened, closed, indexes,
                   issued, atLock, calls>>

\* the QueryResult built at the end of execute_query; start.elapsed() is the
\* age of the Instant (one tick is one unit of execution_time_ms)
MakeResult(l) ==
    [column_names |-> l.column_names, rows |-> l.rows,
     execution_time_ms |-> l.start, row_count |-> l.row_count]

\* mutant: a row that fails ends the loop (break) and the rows collected so
\* far are returned
ExecFetchBreaksOnError(t) ==
    /\ pc[t] = "fetch"
    /\ IF loc[t].i = Len(loc[t].rs)
       THEN /\ loc' = [loc EXCEPT ![t].out = Ok(MakeResult(loc[t]))]
            /\ Step(t, "exit")
       ELSE \E fault \in BOOLEAN :
            IF fault
            THEN /\ loc' = [loc EXCEPT ![t].out = Ok(MakeResult(loc[t]))]
                 /\ Step(t, "exit")
            ELSE /\ loc' = [loc EXCEPT
                        ![t].rows = Append(@, RowToStrings(loc[t].rs[loc[t].i + 1])),
                        ![t].row_count = @ + 1,
                        ![t].i = @ + 1]
                 /\ UNCHANGED pc
    /\ UNCHANGED <<op, arg, holders, poisoned, handle, opened, closed, tables, indexes,
                   issued, atLock, calls>>

\* one turn of `for row in rows_result`: rows.push(row?); row_count += 1;
\* after the last row the QueryResult is returned
ExecFetch(t) ==
    /\ pc[t] = "fetch"
    /\ IF loc[t].i = Len(loc[t].rs)
       THEN /\ loc' = [loc EXCEPT ![t].out = Ok(MakeResult(loc[t]))]
            /\ Step(t, "exit")
       ELSE \E fault \in BOOLEAN :
            IF fault
            THEN Fail(t, EngineErr)
            ELSE /\ loc' = [loc EXCEPT
                        ![t].rows = Append(@, RowToStrings(loc[t].rs[loc[t].i + 1])),
                        ![t].row_count = @ + 1,
                        ![t].i = @ + 1]
                 /\ UNCHANGED pc
    /\ UNCHANGED <<op, arg, holders, poisoned, handle, opened, closed, tables, indexes,
                   issued, atLock, calls>>

(* -------------------------- get_database_info -------------------------- *)

\* mutant: the table list is fetched through a locking operation, so the
\* holder calls lock() again
InfoTablesRelock(t) ==
    /\ pc[t] = "tables"
    /\ Step(t, "lock")
    /\ UNCHANGED <<op, arg, holders, poisoned, handle, opened, closed, tables, indexes,
                   loc, issued, atLock, calls>>

\* mutant: the table list is cut to its first row (LIMIT 1)
InfoTablesLimitOne(t) ==
    /\ pc[t] = "tables"
    /\ Issue(t)
    /\ \E fault \in BOOLEAN :
        IF fault
        THEN Fail(t, EngineErr)
        ELSE /\ loc' = [loc EXCEPT
                    ![t].rs = [k \in 1..(IF tables = <<>> THEN 0 ELSE 1) |-> tables[k].name],
                    ![t].i = 0]
             /\ Step(t, "next")
    /\ UNCHANGED <<op, arg, holders, poisoned, handle, opened, closed, tables, indexes,
                   atLock, calls>>

\* SELECT name FROM sqlite_master WHERE type='table'
InfoTables(t) ==
    /\ pc[t] = "tables"
    /\ Issue(t)
    /\ \E fault \in BOOLEAN :
        IF fault
        THEN Fail(t, EngineErr)
        ELSE /\ loc' = [loc EXCEPT ![t].rs = [k \in 1..Len(tables) |-> tables[k].name],
                                   ![t].i = 0]
             /\ Step(t, "next")
    /\ UNCHANGED <<op, arg, holders, poisoned, handle, opened, closed, tables, indexes,
                   atLock, calls>>

\* one turn of `for table_result in tables_rows`; after the last table the
\* DatabaseInfo is returned
InfoNext(t) ==
    /\ pc[t] = "next"
    /\ IF loc[t].i = Len(loc[t].rs)
       THEN /\ loc' = [loc EXCEPT ![t].out = Ok(loc[t].info)]
            /\ Step(t, "exit")
       ELSE \E fault \in BOOLEAN :
            IF fault
            THEN Fail(t, EngineErr)
            ELSE /\ loc' = [loc EXCEPT
                        ![t].table_name = loc[t].rs[loc[t].i + 1],
                        ![t].i = @ + 1,
                        ![t].info.table_count = @ + 1]
                 /\ Step(t, "cnt")
    /\ UNCHANGED <<op, arg, holders, poisoned, handle, opened, closed, tables, indexes,
                   issued, atLock, calls>>

\* HashMap::insert: an existing key's value is replaced
Insert(map, k, v) == (k :> v) @@ map

\* mutant: a failed COUNT(*) is skipped (if let Ok(..)) and the loop goes on
\* to the next table
InfoCountSkipsOnError(t) ==
    /\ pc[t] = "cnt"
    /\ Issue(t)
    /\ \E fault \in BOOLEAN :
        IF ~fault /\ HasTable(tables, loc[t].table_name)
        THEN /\ loc' = [loc EXCEPT ![t].info.row_count =
                    Insert(@, loc[t].table_name,
                           Len(FindTable(tables, loc[t].table_name)[1].rows))]
             /\ Step(t, "schema")
        ELSE /\ UNCHANGED loc
             /\ Step(t, "next")
    /\ UNCHANGED <<op, arg, holders, poisoned, handle, opened, closed, tables, indexes,
                   atLock, calls>>

\* SELECT COUNT(*) FROM <table>
InfoCount(t) ==
    /\ pc[t] = "cnt"
    /\ Issue(t)
    /\ \E fault \in BOOLEAN :
        IF ~fault /\ HasTable(tables, loc[t].table_name)
        THEN /\ loc' = [loc EXCEPT ![t].info.row_count =
                    Insert(@, loc[t].table_name,
                           Len(FindTable(tables, loc[t].table_name)[1].rows))]
             /\ Step(t, "schema")
        ELSE Fail(t, EngineErr)
    /\ UNCHANGED <<op, arg, holders, poisoned, handle, opened, closed, tables, indexes,
                   atLock, calls>>

\* schema_vec.join(", ") over format!("{} {}", name, type_str)
RECURSIVE JoinSchema(_)
JoinSchema(cols) ==
    IF cols = <<>> THEN <<>>
    ELSE LET one == cols[1].name \o <<" ">> \o cols[1].type
         IN  IF Len(cols) = 1 THEN one
             ELSE one \o <<",", " ">> \o JoinSchema(Tail(cols))

\* PRAGMA table_info(<table>)
InfoSchema(t) ==
    /\ pc[t] = "schema"
    /\ Issue(t)
    /\ \E fault \in BOOLEAN :
        IF ~fault /\ HasTable(tables, loc[t].table_name)
        THEN /\ loc' = [loc EXCEPT ![t].info.table_schemas =
                    Insert(@, loc[t].table_name,
                           JoinSchema(FindTable(tables, loc[t].table_name)[1].cols))]
             /\ Step(t, "idx")
        ELSE Fail(t, EngineErr)
    /\ UNCHANGED <<op, arg, holders, poisoned, handle, opened, closed, tables, indexes,
                   atLock, calls>>

\* the names of the indexes on a table, in catalog order
RECURSIVE IndexNamesOn(_, _)
IndexNamesOn(idxs, table) ==
    IF idxs = <<>> THEN <<>>
    ELSE (IF idxs[1].table = table THEN <<idxs[1].name>> ELSE <<>>)
         \o IndexNamesOn(Tail(idxs), table)

\* PRAGMA index_list(<table>)
InfoIndex(t) ==
    /\ pc[t] = "idx"
    /\ Issue(t)
    /\ \E fault \in BOOLEAN :
        IF ~fault /\ HasTable(tables, loc[t].table_name)
        THEN /\ loc' = [loc EXCEPT ![t].info.indices =
                    Insert(@, loc[t].table_name, IndexNamesOn(indexes, loc[t].table_name))]
             /\ Step(t, "next")
        ELSE Fail(t, EngineErr)
    /\ UNCHANGED <<op, arg, holders, poisoned, handle, opened, closed, tables, indexes,
                   atLock, calls>>

(* ----------------------------- create_index ---------------------------- *)

\* mutant: CREATE INDEX is accepted when the index name is already taken
CreateIndexOkDuplicate(cat, idxs, table, column) ==
    /\ HasTable(cat, table)
    /\ \E k \in 1..Len(FindTable(cat, table)[1].cols) :
            FindTable(cat, table)[1].cols[k].name = column

\* CREATE INDEX <index> ON <table> (<column>)
CreateIndexOk(cat, idxs, table, column) ==
    /\ HasTable(cat, table)
    /\ \E k \in 1..Len(FindTable(cat, table)[1].cols) :
            FindTable(cat, table)[1].cols[k].name = column
    /\ \A k \in 1..Len(idxs) : idxs[k].name # IndexName(table, column)

CreateIndex(t) ==
    /\ pc[t] = "cindex"
    /\ Issue(t)
    /\ \E fault \in BOOLEAN :
        IF ~fault /\ CreateIndexOk(tables, indexes, arg[t].tbl, arg[t].col)
        THEN /\ indexes' = Append(indexes, [name |-> IndexName(arg[t].tbl, arg[t].col),
                                            table |-> arg[t].tbl, column |-> arg[t].col])
             /\ loc' = [loc EXCEPT ![t].out =
                    Ok([index |-> IndexName(arg[t].tbl, arg[t].col),
                        table |-> arg[t].tbl, column |-> arg[t].col])]
             /\ Step(t, "exit")
        ELSE /\ Fail(t, EngineErr)
             /\ UNCHANGED indexes
    /\ UNCHANGED <<op, arg, holders, poisoned, handle, opened, closed, tables,
                   atLock, calls>>

(* --------------------------- specifications ---------------------------- *)

Run(t) ==
    \/ Acquire(t)
    \/ InitOpen(t)
    \/ InitStore(t)
    \/ CheckHandle(t)
    \/ ImportCreate(t)
    \/ ImportCount(t)
    \/ ExecStart(t)
    \/ ExecPrepare(t)
    \/ ExecQuery(t)
    \/ ExecFetch(t)
    \/ InfoTables(t)
    \/ InfoNext(t)
    \/ InfoCount(t)
    \/ InfoSchema(t)
    \/ InfoIndex(t)
    \/ CreateIndex(t)
    \/ Exit(t)

\* the Instant of a call that is still to read it
TimerLive(t) == loc[t].start >= 0 /\ pc[t] \in {"prepare", "query", "fetch"}

\* an execute_query caller blocked in lock() by another caller's guard
Waiting(t) == op[t] = "execute_query" /\ pc[t] = "lock" /\ holders # {}

\* an execute_query caller inside an engine call under its guard: prepare,
\* query_map or the iteration over the rows
Working(t) ==
    /\ op[t] = "execute_query"
    /\ t \in holders
    /\ pc[t] \in {"prepare", "query", "fetch"}

\* time passes: for every execute_query caller blocked in lock() or inside an
\* engine call under its guard, and for every Instant still to be read
Tick ==
    /\ \E t \in Threads : Waiting(t) \/ Working(t)
    /\ Cardinality({tk \in Threads \X (1..(MaxTime + 1)) :
            tk[2] <= atLock[tk[1]].waited + atLock[tk[1]].held
                        + (IF Waiting(tk[1]) \/ Working(tk[1]) THEN 1 ELSE 0)})
            <= MaxTime
    /\ atLock' = [t \in Threads |->
            IF Working(t) THEN [atLock[t] EXCEPT !.held = @ + 1]
            ELSE IF Waiting(t) THEN [atLock[t] EXCEPT !.waited = @ + 1]
            ELSE atLock[t]]
    /\ loc' = [t \in Threads |->
            IF TimerLive(t) THEN [loc[t] EXCEPT !.start = @ + 1] ELSE loc[t]]
    /\ UNCHANGED <<pc, op, arg, holders, poisoned, handle, opened, closed, tables,
                   indexes, issued, calls>>

Next == \E t \in Threads : Call(t) \/ Run(t) \/ Panic(t)

Spec == Init /\ [][Next]_vars

\* every caller that can take a step eventually takes one: a runnable thread
\* is scheduled, and lock() returns once the Mutex stays free
FairSpec == Spec /\ \A t \in Threads : WF_vars(Run(t))

\* the program with the clock running: Spec is the program observed without
\* a clock, where every Instant is read at the age it was taken with
TimedNext == Tick \/ Next

TimedSpec == Init /\ [][TimedNext]_vars

(* ------------------------------ claims --------------------------------- *)

Returning(t, o) == pc[t] = "exit" /\ op[t] = o

Returns(t, o, kind) == Returning(t, o) /\ loc[t].out.kind = kind

NonInitOps == Ops \ {"init_database"}

\* C1 as stated: while no init has succeeded, every operation other than init
\* returns "Database not initialized", has issued no statement, and the
\* handle is absent
C1_AsStated ==
    \A t \in Threads :
        (pc[t] = "exit" /\ op[t] \in NonInitOps /\ handle = 0)
            => /\ loc[t].out = Err(NotInitErr)
               /\ issued[t] = 0

\* C1 amended: while no init has succeeded, every operation other than init
\* has issued no statement and leaves the handle absent; it returns
\* "Database not initialized" when the Mutex is not poisoned, and the lock
\* error when it is
C1_NotInitialized ==
    \A t \in Threads :
        /\ (pc[t] = "exit" /\ op[t] \in NonInitOps /\ handle = 0)
                => /\ loc[t].out = IF poisoned THEN Err(LockErr) ELSE Err(NotInitErr)
                   /\ issued[t] = 0
        /\ (pc[t] = "exit" /\ op[t] \in NonInitOps /\ t \in holders
                /\ atLock[t].handle = 0)
                => handle = 0

\* a query returns "Database not initialized" after an earlier call
C1_Witness ==
    \E t \in Threads :
        /\ Returning(t, "execute_query")
        /\ loc[t].out = Err(NotInitErr)
        /\ calls > 1
        /\ ~poisoned

\* C2: at most one caller is between its lock acquisition and its release,
\* and a caller that reads the handle or is inside an engine call holds the lock
C2_MutualExclusion ==
    /\ Cardinality(holders) <= 1
    /\ \A t \in Threads : pc[t] \in ({"chk"} \cup EnginePcs) => t \in holders

\* one caller runs a statement while another is blocked in lock()
C2_Witness ==
    \E t, u \in Threads :
        /\ t # u
        /\ pc[t] = "fetch"
        /\ t \in holders
        /\ pc[u] = "lock"

\* C3: a caller that is outside a call, or has only just invoked one, holds
\* no guard: every return path has released the lock
C3_ReleasedOnReturn ==
    \A t \in Threads : pc[t] \in {"idle", "lock"} => t \notin holders

\* two calls have returned, both through an error path (no init succeeded,
\* nothing panicked), and the lock is free
C3_Witness ==
    /\ calls = 2
    /\ \A t \in Threads : pc[t] = "idle"
    /\ handle = 0
    /\ ~poisoned
    /\ holders = {}

\* C4: no deadlock: no caller waits in lock() while holding the guard, and
\* under fair scheduling every invoked operation ends, so from some point on
\* every caller is outside any call and the lock is free
C4_NoDeadlock ==
    /\ [](\A t \in Threads : pc[t] = "lock" => t \notin holders)
    /\ <>[](\A t \in Threads : pc[t] = "idle" /\ t \notin holders)

\* a caller is blocked in lock() while another caller holds the lock
C4_Witness ==
    \E t, u \in Threads :
        /\ pc[t] = "lock"
        /\ u # t
        /\ u \in holders
        /\ op[u] = "get_database_info"
        /\ pc[u] = "idx"

\* the strings of the statement's complete result on a given catalog
ExpectedRows(q, cat) ==
    [k \in 1..Len(QueryRows(q, cat)) |-> RowToStrings(QueryRows(q, cat)[k])]

\* C5: the result execute_query returns is the complete result of its own
\* statement on the catalog as it was when the caller took the lock
C5_NoInterleaving ==
    \A t \in Threads :
        Returns(t, "execute_query", "Ok")
            => /\ QueryPrepares(arg[t], atLock[t].tables)
               /\ loc[t].out.val.column_names = QueryColumns(arg[t], atLock[t].tables)
               /\ loc[t].out.val.rows = ExpectedRows(arg[t], atLock[t].tables)

\* a SELECT returns the table's rows while another execute_query call waits
C5_Witness ==
    \E t, u \in Threads :
        /\ t # u
        /\ Returns(t, "execute_query", "Ok")
        /\ arg[t] = SelectQ(TA1)
        /\ Len(loc[t].out.val.rows) = 2
        /\ pc[u] = "lock"
        /\ op[u] = "execute_query"

\* C6: in every QueryResult, row_count is the number of rows and every row
\* has as many cells as there are column names
C6_ResultShape ==
    \A t \in Threads :
        Returns(t, "execute_query", "Ok")
            => LET r == loc[t].out.val
               IN  /\ r.row_count = Len(r.rows)
                   /\ \A k \in 1..Len(r.rows) : Len(r.rows[k]) = Len(r.column_names)

\* a result of two rows and three columns, one cell of which could not be read
C6_Witness ==
    \E t \in Threads :
        /\ Returns(t, "execute_query", "Ok")
        /\ arg[t] = LitQ
        /\ loc[t].out.val.row_count = 2
        /\ Len(loc[t].out.val.column_names) = 3

\* connections that are open
Live == (1..opened) \ closed

\* connections opened by an init_database that has not stored them yet
Pending == {loc[t].conn : t \in {u \in Threads : pc[u] = "store"}}

\* C7: a successful init_database leaves the connection it opened as the
\* stored handle and the handle it replaced dropped; at every point the open
\* connections, apart from one being installed, are the stored handle alone
C7_ReinitOverwrites ==
    /\ Live \ Pending = {handle} \ {0}
    /\ \A t \in Threads :
        Returns(t, "init_database", "Ok")
            => /\ handle = loc[t].conn
               /\ handle \in Live
               /\ atLock[t].handle # handle
               /\ atLock[t].handle # 0 => atLock[t].handle \in closed

\* a second init_database succeeds over a stored handle
C7_Witness ==
    \E t \in Threads :
        /\ Returns(t, "init_database", "Ok")
        /\ atLock[t].handle # 0
        /\ handle = loc[t].conn

\* C8: an init_database whose engine open failed returns an error with the
\* stored handle as it was when the call took the lock, and its return
\* releases the lock
C8_OpenFailure ==
    [][\A t \in Threads :
        (Returning(t, "init_database") /\ loc[t].out = Err(EngineErr) /\ pc'[t] = "idle")
            => /\ handle = atLock[t].handle
               /\ handle' = atLock[t].handle
               /\ t \notin holders']_vars

\* a re-initialisation fails to open and the earlier handle is still stored
C8_Witness ==
    \E t \in Threads :
        /\ Returning(t, "init_database")
        /\ loc[t].out = Err(EngineErr)
        /\ atLock[t].handle # 0
        /\ handle = atLock[t].handle

\* C9: once the Mutex is poisoned nobody holds it, and every call in progress
\* is returning the lock error without having read the handle or issued a
\* statement
C9_PoisonIsAnError ==
    poisoned =>
        /\ holders = {}
        /\ \A t \in Threads :
            \/ pc[t] \in {"idle", "lock"}
            \/ /\ pc[t] = "exit"
               /\ loc[t].out = Err(LockErr)
               /\ issued[t] = 0

\* init_database itself returns the lock error on a poisoned Mutex
C9_Witness ==
    \E t \in Threads :
        /\ poisoned
        /\ Returning(t, "init_database")
        /\ loc[t].out = Err(LockErr)

DigitValue(c) == (CHOOSE k \in 1..10 : Digits[k] = c) - 1

RECURSIVE ParseNat(_)
ParseNat(s) ==
    IF s = <<>> THEN 0 ELSE 10 * ParseNat(SubSeq(s, 1, Len(s) - 1)) + DigitValue(s[Len(s)])

\* s is the decimal text of the natural number n
IsNatText(s, n) ==
    /\ s # <<>>
    /\ Chars(s) \subseteq DigitSet
    /\ (Len(s) > 1 => s[1] # "0")
    /\ ParseNat(s) = n

\* s is the decimal text of the integer v
IsIntText(s, v) ==
    IF v < 0 THEN s # <<>> /\ s[1] = "-" /\ IsNatText(Tail(s), 0 - v)
    ELSE IsNatText(s, v)

\* the lossy decoding of the byte strings stored in the engine: an invalid
\* byte, or a lead byte without its continuation, is one U+FFFD
LossyText ==
    (<<97>> :> <<"a">>)
    @@ (<<98, 255>> :> <<"b", Replacement>>)
    @@ (<<195, 169>> :> <<"U+00E9">>)
    @@ (<<97, 195, 98, 255>> :> <<"a", Replacement, "b", Replacement>>)

\* the fixed policy for one cell
CellPolicy(cell, s) ==
    CASE cell.tag = "Null" -> s = <<"N", "U", "L", "L">>
      [] cell.tag = "Integer" -> IsIntText(s, cell.v)
      [] cell.tag = "Text" -> s = LossyText[cell.b]
      [] cell.tag = "Blob" ->
            /\ Len(s) >= 7
            /\ SubSeq(s, 1, 5) = <<"B", "L", "O", "B", "(">>
            /\ s[Len(s)] = ")"
            /\ IsNatText(SubSeq(s, 6, Len(s) - 1), Len(cell.b))
      [] cell.tag = "Err" -> s = <<"E", "R", "R", "O", "R">>
      [] OTHER -> TRUE

\* C10: every row of the statement's result is returned, cell for cell, each
\* cell converted by the policy; an unreadable cell is "ERROR" and the cells
\* beside it are converted as usual
C10_CellPolicy ==
    \A t \in Threads :
        Returns(t, "execute_query", "Ok")
            => LET rs == QueryRows(arg[t], atLock[t].tables)
                   r == loc[t].out.val.rows
               IN  /\ Len(r) = Len(rs)
                   /\ \A k \in 1..Len(rs) :
                        /\ Len(r[k]) = Len(rs[k])
                        /\ \A j \in 1..Len(rs[k]) : CellPolicy(rs[k][j], r[k][j])

\* a returned row holds "ERROR" beside a converted integer and a decoded text
C10_Witness ==
    \E t \in Threads :
        /\ Returns(t, "execute_query", "Ok")
        /\ arg[t] = LitQ
        /\ loc[t].out.val.rows[1] =
                << <<"3", "0", "5">>, <<"a", Replacement, "b", Replacement>>,
                   <<"E", "R", "R", "O", "R">> >>
        /\ loc[t].out.val.rows[2][2] = <<"B", "L", "O", "B", "(", "3", ")">>

\* the names of the catalog's tables
TableNames(cat) == {cat[k].name : k \in 1..Len(cat)}

\* C11: get_database_info returns either an error and no DatabaseInfo, or a
\* DatabaseInfo for which the table list and the three sub-queries of every
\* table were answered: 1 + 3n statements, and an entry for each of the n
\* tables in each map
C11_AllOrNothing ==
    \A t \in Threads :
        Returning(t, "get_database_info")
            => \/ /\ loc[t].out.kind = "Err"
                  /\ loc[t].out.val = <<>>
               \/ /\ loc[t].out.kind = "Ok"
                  /\ issued[t] = 1 + 3 * Len(tables)
                  /\ loc[t].out.val.table_count = Len(tables)
                  /\ DOMAIN loc[t].out.val.row_count = TableNames(tables)
                  /\ DOMAIN loc[t].out.val.table_schemas = TableNames(tables)
                  /\ DOMAIN loc[t].out.val.indices = TableNames(tables)

\* a sub-query of the second table fails after the first table was processed
\* in full: the call returns the error
C11_Witness ==
    \E t \in Threads :
        /\ Returns(t, "get_database_info", "Err")
        /\ loc[t].out.msg = EngineErr
        /\ loc[t].info.table_count = 2
        /\ DOMAIN loc[t].info.indices = {TA1}
        /\ issued[t] > 4

\* the index names the arguments of create_index stand for, written out
ExpectedIndexName ==
    (<<TA1, ColId>> :> <<"i", "d", "x", "_", "a", "_", "1", "_", "i", "d">>)
    @@ (<<TA1, <<"z">>>> :> <<"i", "d", "x", "_", "a", "_", "1", "_", "z">>)

IndexExists(name) == \E k \in 1..Len(indexes) : indexes[k].name = name

\* C12: a successful create_index(table, column) has created the index named
\* idx_<table>_<column> on that column; index names are unique; and a
\* create_index that finds its name taken returns an error and leaves the
\* indexes as they were
C12_IndexNaming ==
    /\ [](\A t \in Threads :
            Returns(t, "create_index", "Ok")
                => /\ loc[t].out.val.index = ExpectedIndexName[<<arg[t].tbl, arg[t].col>>]
                   /\ \E k \in 1..Len(indexes) :
                        indexes[k] = [name |-> ExpectedIndexName[<<arg[t].tbl, arg[t].col>>],
                                      table |-> arg[t].tbl, column |-> arg[t].col])
    /\ [](\A j, k \in 1..Len(indexes) : indexes[j].name = indexes[k].name => j = k)
    /\ [][\A t \in Threads :
            (pc[t] = "cindex" /\ IndexExists(ExpectedIndexName[<<arg[t].tbl, arg[t].col>>]))
                => /\ indexes' = indexes
                   /\ pc'[t] = "exit" => loc'[t].out.kind = "Err"]_vars

\* a second create_index on the same column returns an error while the
\* first index is in place
C12_Witness ==
    \E t \in Threads :
        /\ Returns(t, "create_index", "Err")
        /\ arg[t] = IndexArg(TA1, ColId)
        /\ indexes = <<[name |-> <<"i", "d", "x", "_", "a", "_", "1", "_", "i", "d">>,
                        table |-> TA1, column |-> ColId]>>

\* the base name (extension removed) of each importable file, written out
BaseName ==
    (PathDash :> <<"a", "-", "1">>)
    @@ (PathUnder :> <<"a", "_", "1">>)
    @@ (PathSales :> <<"s", "a", "l", "e", "s", " ", "r", "e", "p", "o", "r", "t">>)

SalesReport == <<"s", "a", "l", "e", "s", "_", "r", "e", "p", "o", "r", "t">>

C14_NameCollision ==
    \A t \in Threads :
        (Returning(t, "import_parquet") /\ t \in holders
                /\ HasTable(atLock[t].tables, loc[t].table_name))
            => /\ loc[t].out.kind = "Err"
               /\ issued[t] = 1
               /\ tables = atLock[t].tables

\* "d/a_1.parquet" is imported after "a-1.parquet": it returns an error and
\* table a_1 still has the two rows of the first file
C14_Witness ==
    \E t \in Threads :
        /\ Returns(t, "import_parquet", "Err")
        /\ arg[t].path = PathUnder
        /\ loc[t].table_name = TA1
        /\ issued[t] = 1
        /\ HasTable(tables, TA1)
        /\ FindTable(tables, TA1)[1].rows = Files[PathDash].rows

\* C15: a DatabaseInfo that is returned counts the tables of the catalog as
\* it is during the call (the catalog the caller found when it took the
\* lock), its three maps have exactly the catalog's table names as keys, and
\* each row_count entry is the number of rows the table holds
C15_SnapshotExact ==
    \A t \in Threads :
        Returns(t, "get_database_info", "Ok")
            => LET info == loc[t].out.val
               IN  /\ tables = atLock[t].tables
                   /\ info.table_count = Cardinality(TableNames(tables))
                   /\ info.table_count = Len(tables)
                   /\ DOMAIN info.row_count = TableNames(tables)
                   /\ DOMAIN info.table_schemas = TableNames(tables)
                   /\ DOMAIN info.indices = TableNames(tables)
                   /\ \A k \in 1..Len(tables) :
                        info.row_count[tables[k].name] = Len(tables[k].rows)

\* after init and one import the snapshot has one table, with the row count
\* of the file
C15_Witness ==
    \E t \in Threads :
        /\ Returns(t, "get_database_info", "Ok")
        /\ calls = 3
        /\ loc[t].out.val.table_count = 1
        /\ DOMAIN loc[t].out.val.row_count = {TA1}
        /\ loc[t].out.val.row_count[TA1] = Len(Files[PathDash].rows)

\* C16: the stored handle changes only in the step in which an init_database
\* stores its new connection; a handle that is present stays present; and
\* every other operation returns, with a value or an error, over the handle
\* it found when it took the lock
C16_HandleFrame ==
    /\ [][/\ handle' # handle
                => \E t \in Threads :
                        /\ op[t] = "init_database"
                        /\ pc[t] = "store"
                        /\ pc'[t] = "exit"
                        /\ loc'[t].out = Ok(InitOk)
           /\ handle # 0 => handle' # 0]_vars
    /\ [](\A t \in Threads :
            (pc[t] = "exit" /\ op[t] \in NonInitOps /\ t \in holders)
                => /\ handle = atLock[t].handle
                   /\ handle \notin closed)

\* a statement fails on the second connection stored: the handle is still
\* that connection
C16_Witness ==
    \E t \in Threads :
        /\ Returns(t, "execute_query", "Err")
        /\ loc[t].out.msg = EngineErr
        /\ handle = 2
        /\ atLock[t].handle = 2

\* C17: the Instant of execute_query is taken by the holder of the guard, at
\* the statement after the handle was found present, and is fresh then; while
\* it is live the caller holds the guard and the Instant is no older than the
\* guard; it is read in the step that returns the QueryResult, after the last
\* row was collected and with the guard still held; so the reported time is at
\* most the time the guard has been held, whatever time was spent in lock()
C17_TimerPlacement ==
    /\ [](\A t \in Threads :
            /\ TimerLive(t)
                => /\ t \in holders
                   /\ handle # 0
                   /\ loc[t].start <= atLock[t].held
            /\ Returns(t, "execute_query", "Ok")
                => /\ t \in holders
                   /\ loc[t].out.val.execution_time_ms <= atLock[t].held
                   /\ Len(loc[t].rows) = Len(loc[t].rs))
    /\ [][\A t \in Threads :
            /\ (loc[t].start < 0 /\ loc'[t].start >= 0)
                => /\ pc[t] = "start"
                   /\ t \in holders
                   /\ handle # 0
                   /\ loc'[t].start = 0
            /\ (loc[t].out.kind # "Ok" /\ loc'[t].out.kind = "Ok"
                    /\ op[t] = "execute_query")
                => /\ loc[t].i = Len(loc[t].rs)
                   /\ loc'[t].out.val.execution_time_ms = loc[t].start
                   /\ t \in holders']_vars

\* a caller that spent a tick blocked in lock() reports an execution time of 0
C17_Witness ==
    \E t \in Threads :
        /\ Returns(t, "execute_query", "Ok")
        /\ atLock[t].waited = 1
        /\ atLock[t].held = 0
        /\ loc[t].out.val.execution_time_ms = 0
        /\ loc[t].out.val.row_count = 2

\* C18: execute_query returns either an error and no QueryResult, whatever
\* rows it had collected, or a QueryResult made after the last row of the
\* statement's output was collected, holding one row for each row of that
\* output, in the output's order
C18_NoPartialResult ==
    \A t \in Threads :
        Returning(t, "execute_query")
            => \/ /\ loc[t].out.kind = "Err"
                  /\ loc[t].out.val = <<>>
               \/ /\ loc[t].out.kind = "Ok"
                  /\ loc[t].i = Len(loc[t].rs)
                  /\ loc[t].rs = QueryRows(arg[t], atLock[t].tables)
                  /\ Len(loc[t].out.val.rows) = Len(loc[t].rs)
                  /\ \A k \in 1..Len(loc[t].rs) :
                        /\ Len(loc[t].out.val.rows[k]) = Len(loc[t].rs[k])
                        /\ \A j \in 1..Len(loc[t].rs[k]) :
                              loc[t].out.val.rows[k][j] = CellToString(loc[t].rs[k][j])

\* the second row of a table fails after the first was collected: the call
\* returns the error alone
C18_Witness ==
    \E t \in Threads :
        /\ Returns(t, "execute_query", "Err")
        /\ arg[t] = SelectQ(TA1)
        /\ Len(loc[t].rs) = 2
        /\ loc[t].rows = << <<<<"1">>, <<"a">>>> >>
        /\ loc[t].out = Err(EngineErr)

\* C19: an import_parquet that succeeds holds the guard it took before its
\* CREATE statement, reports the number of rows of the file it loaded, and
\* the table it created holds exactly those rows, whatever the other callers
\* have invoked meanwhile
C19_ImportCount ==
    \A t \in Threads :
        /\ (op[t] = "import_parquet" /\ pc[t] \in {"create", "count"}) => t \in holders
        /\ Returns(t, "import_parquet", "Ok")
            => /\ t \in holders
               /\ issued[t] = 2
               /\ loc[t].out.val.rows = Len(Files[arg[t].path].rows)
               /\ FindTable(tables, loc[t].table_name)
                        = <<[name |-> loc[t].table_name,
                             cols |-> Files[arg[t].path].cols,
                             rows |-> Files[arg[t].path].rows]>>
               /\ ~HasTable(atLock[t].tables, loc[t].table_name)

\* an import reports the two rows of its file while an INSERT into the same
\* table waits for the lock
C19_Witness ==
    \E t, u \in Threads :
        /\ t # u
        /\ Returns(t, "import_parquet", "Ok")
        /\ arg[t].path = PathDash
        /\ loc[t].out.val.rows = 2
        /\ pc[u] = "lock"
        /\ op[u] = "execute_query"
        /\ arg[u] = InsertQ(TA1)

=============================================================================
